---- MODULE Spec2Model ----
(***************************************************************************)
(* Model of src/explorer/dockerExplorer.ts: the DockerExplorerProvider     *)
(* tree-data provider (category nodes, refresh signals, debounce timer,    *)
(* listAll pagination, getDockerNodes dispatch) and acquireToken.          *)
(*                                                                         *)
(* Every call of the provider is one action.  The collaborators (docker    *)
(* daemon, Docker Hub client, keytar, Azure account, HTTP endpoints) are   *)
(* inputs of the action: each awaited call either resolves with a value    *)
(* drawn from a small set or rejects.                                      *)
(***************************************************************************)
EXTENDS Integers, Sequences, FiniteSets, TLC

VARIABLES
    imagesNode,       \* this._imagesNode
    containersNode,   \* this._containersNode
    registriesNode,   \* this._registriesNode
    nodeSeq,          \* number of root expansions so far (identity of the category nodes)
    debounceTimer,    \* this._debounceTimer: the handle of the last setTimeout
    pendingTimers,    \* handles of the timeouts of the event loop that have not fired
    keytar,           \* this._keytar was loaded by the constructor
    password,         \* the secret keytar holds for ('vscode-docker', 'dockerhub')
    fired,            \* payloads _onDidChangeTreeData fired during the last operation
    last              \* the last operation: its input, the collaborator calls, its result

vars == <<imagesNode, containersNode, registriesNode, nodeSeq, debounceTimer,
          pendingTimers, keytar, password, fired, last>>

provider == <<imagesNode, containersNode, registriesNode, nodeSeq>>
timer    == <<debounceTimer, pendingTimers>>
store    == <<keytar, password>>

----------------------------------------------------------------------------
(* Bounds of the model *)

MaxRootCalls == 2     \* root expansions in one behaviour
MaxImages == 1        \* image descriptors the daemon lists
MaxRepoTags == 2      \* repo-tags of one image descriptor
MaxContainers == 1    \* container descriptors the daemon lists
MaxPages == 2         \* pages of one subscription listing
MaxPageLen == 2       \* subscriptions on one page
MaxItems == 1         \* repositories, tags, registries a listing returns

----------------------------------------------------------------------------
(* JavaScript values *)

Undefined == [kind |-> "undefined"]
Null      == [kind |-> "null"]
EmptyObj  == [kind |-> "object"]                 \* {}
Str(s)    == [kind |-> "string", value |-> s]
Num(n)    == [kind |-> "number", value |-> n]
Bool(b)   == [kind |-> "boolean", value |-> b]
Array(s)  == [kind |-> "array", items |-> s]
Rejects   == [kind |-> "rejects"]                \* an awaited promise that rejects

Truthy(v) == /\ v.kind \notin {"undefined", "null"}
             /\ (v.kind = "string" => v.value # "")

SeqsUpTo(S, n) == UNION {[1..k -> S] : k \in 0..n}

Prefix(s, n) == [i \in 1..n |-> s[i]]

----------------------------------------------------------------------------
(* DockerNode *)

MonoIcon  == "mono_moby_small.png"
ColorIcon == "moby_small.png"

\* new DockerNode(label, collapsibleState, contextValue, command, iconPath):
\* the field initialisers leave every payload undefined except repository = {}
DockerNode(label, collapsibleState, contextValue, iconPath) ==
    [label            |-> label,
     collapsibleState |-> collapsibleState,
     contextValue     |-> contextValue,
     iconPath         |-> iconPath,
     id               |-> 0,
     containerDesc    |-> Undefined,
     imageDesc        |-> Undefined,
     repository       |-> EmptyObj,
     subscription     |-> Undefined,
     refreshTokenARC  |-> Undefined,
     accessTokenARC   |-> Undefined]

\* the result of a getChildren call
Resolved(v) == [status |-> "resolved", value |-> v]
\* a call that rejects: an awaited collaborator call rejected ("collaborator"), or a
\* field of an undefined payload was read ("payload", a TypeError)
Rejected(why) == [status |-> "rejected", value |-> Str(why)]
Nodes(s)    == Array(s)

NoCall == [op |-> "none", element |-> Undefined, input |-> Undefined,
           calls |-> <<>>, result |-> Resolved(Undefined)]

Call(op, element, input, calls, result) ==
    [op |-> op, element |-> element, input |-> input, calls |-> calls, result |-> result]

----------------------------------------------------------------------------
(* Initial state: after the constructor *)

Init ==
    /\ imagesNode = Undefined
    /\ containersNode = Undefined
    /\ registriesNode = Undefined
    /\ nodeSeq = 0
    /\ debounceTimer = "undefined"
    /\ pendingTimers = {}
    /\ keytar \in BOOLEAN              \* require(keytar) succeeded, or threw and was caught
    /\ password \in (IF keytar THEN {Null, Str(""), Str("tok0")} ELSE {Null})
    /\ fired = <<>>
    /\ last = NoCall

----------------------------------------------------------------------------
(* Refresh signals *)

\* refreshImages(): fire(this._imagesNode)
RefreshImages ==
    /\ fired' = <<imagesNode>>
    /\ last' = Call("refreshImages", Undefined, Undefined, <<>>, Resolved(Undefined))
    /\ UNCHANGED <<provider, timer, store>>

\* refreshContainers(): fire(this._containersNode)
RefreshContainers ==
    /\ fired' = <<containersNode>>
    /\ last' = Call("refreshContainers", Undefined, Undefined, <<>>, Resolved(Undefined))
    /\ UNCHANGED <<provider, timer, store>>

\* refreshRegistries(): fire(this._registriesNode)
RefreshRegistries ==
    /\ fired' = <<registriesNode>>
    /\ last' = Call("refreshRegistries", Undefined, Undefined, <<>>, Resolved(Undefined))
    /\ UNCHANGED <<provider, timer, store>>

\* refresh(): refreshImages(); refreshContainers(); refreshRegistries()
Refresh ==
    /\ fired' = <<imagesNode, containersNode, registriesNode>>
    /\ last' = Call("refresh", Undefined, Undefined, <<>>, Resolved(Undefined))
    /\ UNCHANGED <<provider, timer, store>>

----------------------------------------------------------------------------
(* Auto refresh *)

DefaultInterval == 1000
Intervals == {-1, 0, DefaultInterval}     \* docker.explorerRefreshInterval

TimerIds == {"t1", "t2", "t3"}

\* the handle setTimeout returns: one no live timeout has
NewTimer == CHOOSE h \in TimerIds : h \notin pendingTimers /\ h # debounceTimer

\* clearTimeout(this._debounceTimer)
ClearTimeout(pending, handle) == pending \ {handle}

\* setAutoRefresh(): a private method; this file holds no call of it
SetAutoRefresh ==
    \E interval \in Intervals :
        /\ IF interval > 0
              THEN /\ pendingTimers' = ClearTimeout(pendingTimers, debounceTimer) \cup {NewTimer}
                   /\ debounceTimer' = NewTimer
              ELSE UNCHANGED timer
        /\ fired' = <<>>
        /\ last' = Call("setAutoRefresh", Undefined, Num(interval), <<>>, Resolved(Undefined))
        /\ UNCHANGED <<provider, store>>

\* the setTimeout callback: refreshImages(); refreshContainers(); a timeout fires once
Timeout ==
    \E h \in pendingTimers :
        /\ pendingTimers' = pendingTimers \ {h}
        /\ fired' = <<imagesNode, containersNode>>
        /\ last' = Call("timeout", Undefined, Undefined, <<>>, Resolved(Undefined))
        /\ UNCHANGED <<provider, debounceTimer, store>>

----------------------------------------------------------------------------
(* getDockerNodes: no element *)

CategoryNode(label, contextValue, id) ==
    [DockerNode(label, "Collapsed", contextValue, "null") EXCEPT !.id = id]

\* a root branch that creates the images node once and keeps it afterwards
NewImagesNode_Kept(id) ==
    IF imagesNode # Undefined THEN imagesNode ELSE CategoryNode("Images", "imagesLabel", id)

\* the three nodes a root expansion creates
NewImagesNode(id)     == CategoryNode("Images", "imagesLabel", id)
NewContainersNode(id) == CategoryNode("Containers", "containersLabel", id)
NewRegistriesNode(id) == CategoryNode("Registries", "registriesLabel", id)

GetRootNodes ==
    /\ nodeSeq < MaxRootCalls
    /\ nodeSeq' = nodeSeq + 1
    /\ imagesNode' = NewImagesNode(nodeSeq')
    /\ containersNode' = NewContainersNode(nodeSeq')
    /\ registriesNode' = NewRegistriesNode(nodeSeq')
    /\ fired' = <<>>
    /\ last' = Call("getChildren", Undefined, Undefined, <<>>,
                    Resolved(Nodes(<<imagesNode', containersNode', registriesNode'>>)))
    /\ UNCHANGED <<timer, store>>

----------------------------------------------------------------------------
(* getDockerNodes: imagesLabel *)

TagNames == <<"app:1", "app:latest", "web:2">>

\* Docker.ImageDesc: RepoTags is null or a list
ImageDesc(id, repoTags) == [kind |-> "imageDesc", Id |-> id, RepoTags |-> repoTags]

RepoTagLists == {Null} \cup {Array(Prefix(TagNames, n)) : n \in 0..MaxRepoTags}

\* what docker.getImageDescriptors() resolves with; null when the daemon gives no data
ImageLists ==
    {Null} \cup
    {Array([i \in 1..Len(t) |-> ImageDesc(i, t[i])]) : t \in SeqsUpTo(RepoTagLists, MaxImages)}

ImageNode(label, desc) ==
    [DockerNode(label, "None", "image", MonoIcon) EXCEPT !.imageDesc = desc]

\* the nodes of one image descriptor: the body of the loop over images
ImageDescNodes(desc) ==
    IF ~Truthy(desc.RepoTags)
      THEN <<ImageNode("<none>:<none>", desc)>>
      ELSE [j \in 1..Len(desc.RepoTags.items) |-> ImageNode(desc.RepoTags.items[j], desc)]

RECURSIVE ImagesLoop(_, _)
ImagesLoop(descs, i) ==
    IF i > Len(descs) THEN <<>>
    ELSE ImageDescNodes(descs[i]) \o ImagesLoop(descs, i + 1)

ImagesBranch(images) ==
    IF ~Truthy(images) \/ Len(images.items) = 0 THEN Resolved(Nodes(<<>>))
    ELSE Resolved(Nodes(ImagesLoop(images.items, 1)))

----------------------------------------------------------------------------
(* getDockerNodes: containersLabel *)

ContainerStates == {"created", "restarting", "running", "paused", "exited", "dead"}

ContainerDesc(i, state) ==
    [kind |-> "containerDesc", Id |-> i, Image |-> "nginx", Names |-> <<<<"/", "w", "e", "b">>>>,
     State |-> state, Status |-> "status"]

ContainerLists ==
    {Null} \cup
    {Array([i \in 1..Len(t) |-> ContainerDesc(i, t[i])]) :
        t \in SeqsUpTo(ContainerStates, MaxContainers)}

\* Names[0].substring(1), a name being the sequence of its characters
Substring1(name) == SubSeq(name, 2, Len(name))

RECURSIVE JoinChars(_)
JoinChars(chars) == IF chars = <<>> THEN "" ELSE Head(chars) \o JoinChars(Tail(chars))

IsStopped(state) == state \in {"exited", "dead"}

ContainerNode(desc) ==
    LET contextValue == IF IsStopped(desc.State) THEN "stoppedContainer" ELSE "runningContainer"
        iconPath     == IF IsStopped(desc.State) THEN MonoIcon ELSE ColorIcon
        label        == desc.Image \o " (" \o JoinChars(Substring1(desc.Names[1])) \o ") ["
                            \o desc.Status \o "]"
    IN  [DockerNode(label, "None", contextValue, iconPath) EXCEPT !.containerDesc = desc]

ContainersBranch(containers) ==
    IF ~Truthy(containers) \/ Len(containers.items) = 0 THEN Resolved(Nodes(<<>>))
    ELSE Resolved(Nodes([i \in 1..Len(containers.items) |-> ContainerNode(containers.items[i])]))

----------------------------------------------------------------------------
(* listAll *)

NoLink == [kind |-> "undefined"]
Link(k) == [kind |-> "link", page |-> k]

\* PartialList<T>: an array with an optional nextLink
PartialList(items, nextLink) == [items |-> items, nextLink |-> nextLink]

\* client.listNext(nextPageLink): the page the link names
ListNext(client, link) == client[link.page]

\* listAll with a loop condition that tests list.length alone: an empty page ends it
RECURSIVE ListAllLoop_StopsAtEmptyPage(_, _, _, _)
ListAllLoop_StopsAtEmptyPage(client, list, all, calls) ==
    IF Len(list.items) > 0
      THEN IF Truthy(list.nextLink)
             THEN ListAllLoop_StopsAtEmptyPage(client, ListNext(client, list.nextLink),
                                               all \o list.items, Append(calls, list.nextLink))
             ELSE ListAllLoop_StopsAtEmptyPage(client, PartialList(<<>>, NoLink),
                                               all \o list.items, calls)
      ELSE [all |-> all, calls |-> calls]

\* one evaluation of the for loop's condition and, when it holds, of its body and
\* its update; calls are the links listNext was called with
RECURSIVE ListAllLoop(_, _, _, _)
ListAllLoop(client, list, all, calls) ==
    IF Len(list.items) > 0 \/ Truthy(list.nextLink)
      THEN IF Truthy(list.nextLink)
             THEN ListAllLoop(client, ListNext(client, list.nextLink), all \o list.items,
                              Append(calls, list.nextLink))
             ELSE ListAllLoop(client, PartialList(<<>>, NoLink), all \o list.items, calls)
      ELSE [all |-> all, calls |-> calls]

\* listAll(client, first), first being the client's first page
ListAll(client) == ListAllLoop(client, client[1], <<>>, <<>>)

----------------------------------------------------------------------------
(* getSubscriptions *)

Subscription(name, id) ==
    [kind |-> "subscription", displayName |-> name, subscriptionId |-> id, tenantId |-> "tenant"]

\* a || b
Or(a, b) == IF Truthy(a) THEN a ELSE b

SubscriptionItem(session, subscription) ==
    [kind         |-> "subscriptionItem",
     label        |-> Or(subscription.displayName, Str("")).value,
     description  |-> Or(subscription.subscriptionId, Str("")).value,
     session      |-> session,
     subscription |-> subscription]

\* a.label.localeCompare(b.label) <= 0 for the labels of the model: locale order
\* puts "alpha" before "Beta", code-unit order does not
LocaleRank(label) == CASE label = "" -> 0 [] label = "alpha" -> 1 [] label = "Beta" -> 2

LocaleCompare(a, b) == LocaleRank(a) - LocaleRank(b)

\* Array.prototype.sort with the comparator of getSubscriptions: a stable sort
RECURSIVE SortInsert(_, _)
SortInsert(sorted, item) ==
    IF sorted = <<>> THEN <<item>>
    ELSE IF LocaleCompare(item.label, sorted[Len(sorted)].label) >= 0 THEN Append(sorted, item)
    ELSE Append(SortInsert(SubSeq(sorted, 1, Len(sorted) - 1), item), sorted[Len(sorted)])

RECURSIVE SortItems(_)
SortItems(items) ==
    IF items = <<>> THEN <<>>
    ELSE SortInsert(SortItems(SubSeq(items, 1, Len(items) - 1)), items[Len(items)])

\* the loop over api.sessions: a session is [name, client], client the pages of
\* its subscription listing (or Rejects: the listing fails)
RECURSIVE SessionsLoop(_, _)
SessionsLoop(sessions, i) ==
    IF i > Len(sessions) THEN <<>>
    ELSE LET subscriptions == ListAll(sessions[i].client.pages).all
         IN  [k \in 1..Len(subscriptions) |-> SubscriptionItem(sessions[i].name, subscriptions[k])]
                 \o SessionsLoop(sessions, i + 1)

GetSubscriptions(sessions) == SortItems(SessionsLoop(sessions, 1))

----------------------------------------------------------------------------
(* getDockerNodes: registriesLabel *)

DockerHubNode == DockerNode("Docker Hub", "Collapsed", "dockerHubRegistry", "null")

SubscriptionNode(item) ==
    [DockerNode(item.label, "Collapsed", "azureSubscription", "null") EXCEPT !.subscription = item]

\* azureAccount.sessions, each with the pages its subscription client lists
Session(name, client) == [name |-> name, client |-> client]

RegistriesBranch(loggedIntoAzure, sessions) ==
    IF loggedIntoAzure.value
      THEN IF \E i \in 1..Len(sessions) : sessions[i].client = Rejects
             THEN Rejected("collaborator")
             ELSE LET subs == GetSubscriptions(sessions)
                  IN  Resolved(Nodes(<<DockerHubNode>> \o
                                     [i \in 1..Len(subs) |-> SubscriptionNode(subs[i])]))
      ELSE Resolved(Nodes(<<DockerHubNode>>))

----------------------------------------------------------------------------
(* getDockerNodes: dockerHubRegistry and dockerHubRegistryImage *)

RepoNames == <<"api", "db", "web">>
HubTagNames == <<"latest", "v1", "v2">>

\* what dockerHubAPI.repository(namespace, name) resolves with
Repository(name) == [kind |-> "repository", namespace |-> "me", name |-> name]

HubRepositoryNode(myRepo) ==
    [DockerNode(myRepo.namespace \o "/" \o myRepo.name, "Collapsed", "dockerHubRegistryImage", "null")
        EXCEPT !.repository = myRepo]

\* the outcome of the branch: the collaborator calls in order, the result, and the
\* secret keytar holds afterwards
Outcome(calls, result, pw) == [calls |-> calls, result |-> result, password |-> pw]

\* from dockerHubAPI.loggedInUser() on; hub = [user, repos, repository] are what
\* loggedInUser(), repositories() and every repository() resolve with, or Rejects
HubListing(calls, hub, pw) ==
    IF hub.user = Rejects
      THEN Outcome(Append(calls, "loggedInUser"), Rejected("collaborator"), pw)
    ELSE IF hub.repos = Rejects
      THEN Outcome(calls \o <<"loggedInUser", "repositories">>, Rejected("collaborator"), pw)
    ELSE IF Len(hub.repos.items) > 0 /\ hub.repository = Rejects
      THEN Outcome(calls \o <<"loggedInUser", "repositories", "repository">>,
                   Rejected("collaborator"), pw)
    ELSE Outcome(calls \o <<"loggedInUser", "repositories">>
                       \o [i \in 1..Len(hub.repos.items) |-> "repository"],
                 Resolved(Nodes([i \in 1..Len(hub.repos.items) |->
                                    HubRepositoryNode(Repository(hub.repos.items[i]))])),
                 pw)

\* a dockerHubRegistry branch that writes a token read from the store back to it
DockerHubBranch_AlwaysStores(hasKeytar, stored, login, hub) ==
    LET calls1 == IF hasKeytar THEN <<"getPassword">> ELSE <<>>
        token1 == IF hasKeytar THEN stored ELSE Undefined
    IN  IF token1 = Rejects THEN Outcome(calls1, Rejected("collaborator"), password)
        ELSE IF ~Truthy(token1)
          THEN LET calls2 == Append(calls1, "dockerHubLogin")
               IN  IF login = Rejects THEN Outcome(calls2, Rejected("collaborator"), password)
                   ELSE IF Truthy(login)
                     THEN IF hasKeytar
                            THEN HubListing(calls2 \o <<"setLoginToken", "setPassword">>, hub, login)
                            ELSE HubListing(Append(calls2, "setLoginToken"), hub, password)
                     ELSE Outcome(calls2, Resolved(Nodes(<<>>)), password)
          ELSE HubListing(calls1 \o <<"setLoginToken", "setPassword">>, hub, token1)

\* stored: what keytar.getPassword resolves with (or Rejects); login: what
\* dockerHubLogin() resolves with (or Rejects)
DockerHubBranch(hasKeytar, stored, login, hub) ==
    LET calls1 == IF hasKeytar THEN <<"getPassword">> ELSE <<>>
        token1 == IF hasKeytar THEN stored ELSE Undefined
    IN  IF token1 = Rejects THEN Outcome(calls1, Rejected("collaborator"), password)
        ELSE IF ~Truthy(token1)
          THEN LET calls2 == Append(calls1, "dockerHubLogin")
               IN  IF login = Rejects THEN Outcome(calls2, Rejected("collaborator"), password)
                   ELSE IF Truthy(login)
                     THEN IF hasKeytar
                            THEN HubListing(calls2 \o <<"setLoginToken", "setPassword">>, hub, login)
                            ELSE HubListing(Append(calls2, "setLoginToken"), hub, password)
                     ELSE Outcome(calls2, Resolved(Nodes(<<>>)), password)
          ELSE HubListing(Append(calls1, "setLoginToken"), hub, password)

\* element.repository.name: undefined when repository is still the initial {}
RepositoryName(repository) ==
    IF repository.kind = "repository" THEN repository.name ELSE "undefined"

HubTagNode(element, tag) ==
    DockerNode(RepositoryName(element.repository) \o ":" \o tag, "None",
               "dockerHubRegistryImageTag", "null")

\* myTags: what dockerHubAPI.tags(namespace, name) resolves with, or Rejects
HubImageBranch(element, myTags) ==
    IF myTags = Rejects THEN Outcome(<<"tags">>, Rejected("collaborator"), password)
    ELSE Outcome(<<"tags">>,
                 Resolved(Nodes([i \in 1..Len(myTags.items) |-> HubTagNode(element, myTags.items[i])])),
                 password)

----------------------------------------------------------------------------
(* getDockerNodes: azureSubscription *)

RegistryNames == <<"one.azurecr.io", "two.azurecr.io", "six.azurecr.io">>

\* a registry node created without node.subscription = element.subscription
RegistryNode_NoSubscription(element, loginServer) ==
    DockerNode(loginServer, "Collapsed", "azureRegistry", "null")

RegistryNode(element, loginServer) ==
    [DockerNode(loginServer, "Collapsed", "azureRegistry", "null")
        EXCEPT !.subscription = element.subscription]

\* registries: what client.registries.list() resolves with (the loginServer of each
\* registry), or Rejects
AzureSubscriptionBranch(element, registries) ==
    IF element.subscription.kind # "subscriptionItem"
      THEN Outcome(<<>>, Rejected("payload"), password)
    ELSE IF registries = Rejects
      THEN Outcome(<<"registries.list">>, Rejected("collaborator"), password)
    ELSE Outcome(<<"registries.list">>,
                 Resolved(Nodes([i \in 1..Len(registries.items) |->
                                    RegistryNode(element, registries.items[i])])),
                 password)

----------------------------------------------------------------------------
(* acquireToken *)

\* what credentials.context.acquireToken calls back with: an error, or a result
TokenError == [kind |-> "error"]
TokenResult(accessToken, refreshToken) ==
    [kind |-> "result", accessToken |-> accessToken, refreshToken |-> refreshToken]

\* the promise of acquireToken: reject(err), or resolve({accessToken, refreshToken})
AcquireToken(callback) ==
    IF callback.kind = "error" THEN Rejects
    ELSE [kind |-> "tokens", accessToken |-> callback.accessToken,
          refreshToken |-> callback.refreshToken]

----------------------------------------------------------------------------
(* getDockerNodes: azureRegistry and azureRepository *)

\* what one HTTP call gives its callback: err with no body (the awaited promise
\* rejects), or a body: "" or the JSON it parses to
HttpError == [kind |-> "error"]
Body(json) == [kind |-> "body", json |-> json]
EmptyBody == Body([kind |-> "empty"])
Json(field, value) == [kind |-> "json", field |-> field, value |-> value]

\* body.length > 0
HasBody(response) == response.json.kind # "empty"

\* JSON.parse(body)[field]
Parse(response, field) ==
    IF response.json.field = field THEN response.json.value ELSE Undefined

AzureRepositoryNode(element, name, accessTokenARC, refreshTokenARC) ==
    [DockerNode(name, "Collapsed", "azureRepository", "null")
        EXCEPT !.repository = Str(element.label),
               !.subscription = element.subscription,
               !.accessTokenARC = accessTokenARC,
               !.refreshTokenARC = refreshTokenARC]

AzureTagNode(element, tag, accessTokenARC) ==
    [DockerNode(element.label \o ":" \o tag, "None", "azureRepositoryTag", "null")
        EXCEPT !.repository = element.repository,
               !.subscription = element.subscription,
               !.accessTokenARC = accessTokenARC,
               !.refreshTokenARC = element.refreshTokenARC]

\* the callback of the third call of the azureRegistry branch
CatalogNodes(element, response, accessTokenARC, refreshTokenARC) ==
    IF HasBody(response)
      THEN LET repositories == Parse(response, "repositories")
           IN  [i \in 1..Len(repositories.items) |->
                   AzureRepositoryNode(element, repositories.items[i], accessTokenARC, refreshTokenARC)]
      ELSE <<>>

\* the callback of the third call of the azureRepository branch
TagListNodes(element, response, accessTokenARC) ==
    IF HasBody(response)
      THEN LET tags == Parse(response, "tags")
           IN  [i \in 1..Len(tags.items) |-> AzureTagNode(element, tags.items[i], accessTokenARC)]
      ELSE <<>>

\* the three awaited HTTP calls; kind is "catalog" (azureRegistry) or "tags"
\* (azureRepository); http = <<exchange, token, listing>> are the responses
AzureExchange(element, kind, http) ==
    LET exchange == http[1]
        token    == http[2]
        listing  == http[3]
        refreshTokenARC == IF exchange.kind = "body" /\ HasBody(exchange)
                             THEN Parse(exchange, "refresh_token") ELSE Undefined
        accessTokenARC  == IF token.kind = "body" /\ HasBody(token)
                             THEN Parse(token, "access_token") ELSE Undefined
        get == IF kind = "catalog" THEN "GET /v2/_catalog" ELSE "GET /v2/tags/list"
        calls1 == <<"acquireToken", "POST /oauth2/exchange">>
        calls2 == Append(calls1, "POST /oauth2/token")
        calls3 == Append(calls2, get)
    IN  IF exchange.kind = "error" THEN Outcome(calls1, Rejected("collaborator"), password)
        ELSE IF token.kind = "error" THEN Outcome(calls2, Rejected("collaborator"), password)
        ELSE IF listing.kind = "error" THEN Outcome(calls3, Rejected("collaborator"), password)
        ELSE IF kind = "catalog"
          THEN Outcome(IF HasBody(listing) THEN calls3 ELSE Append(calls3, "showWarningMessage"),
                       Resolved(Nodes(CatalogNodes(element, listing, accessTokenARC, refreshTokenARC))),
                       password)
          ELSE Outcome(calls3,
                       Resolved(Nodes(TagListNodes(element, listing, accessTokenARC))),
                       password)

\* either branch up to the token guard; falling out of the guard reaches the end
\* of getDockerNodes, which returns nothing
AzureBranch(element, kind, callback, http) ==
    IF element.subscription.kind # "subscriptionItem"
      THEN Outcome(<<>>, Rejected("payload"), password)
    ELSE LET tokens == AcquireToken(callback)
         IN  IF tokens = Rejects
               THEN Outcome(<<"acquireToken">>, Rejected("collaborator"), password)
             ELSE IF Truthy(tokens.accessToken) /\ Truthy(tokens.refreshToken)
               THEN AzureExchange(element, kind, http)
             ELSE Outcome(<<"acquireToken">>, Resolved(Undefined), password)

AzureRegistryBranch(element, callback, http) == AzureBranch(element, "catalog", callback, http)

AzureRepositoryBranch(element, callback, http) == AzureBranch(element, "tags", callback, http)

\* a node whose contextValue matches no branch: the end of getDockerNodes
NoBranch == Outcome(<<>>, Resolved(Undefined), password)

----------------------------------------------------------------------------
(* getChildren(element): the nodes the host can pass and what the collaborators answer *)

Range(f) == {f[i] : i \in DOMAIN f}

\* the nodes of the last expansion and the category nodes the provider holds
Known ==
    ({imagesNode, containersNode, registriesNode} \ {Undefined}) \cup
    (IF last.op = "getChildren" /\ last.result.status = "resolved"
         /\ last.result.value.kind = "array"
       THEN Range(last.result.value.items) ELSE {})

Elements(contextValue) == {n \in Known : n.contextValue = contextValue}

Dispatched == {"imagesLabel", "containersLabel", "registriesLabel", "dockerHubRegistry",
               "dockerHubRegistryImage", "azureSubscription", "azureRegistry",
               "azureRepository"}

\* a collaborator call the run of the handler does not reach
NotCalled == [kind |-> "notCalled"]

\* the pages of the subscription listing of one session
Client(pages) == [kind |-> "client", pages |-> pages]

FirstClients ==
    {Client(<<PartialList(<<Subscription(Str("Beta"), Str("sub-2")),
                            Subscription(Str("alpha"), Str("sub-1"))>>, NoLink)>>),
     Client(<<PartialList(<<>>, NoLink)>>),
     Rejects}

SecondClients ==
    {Client(<<PartialList(<<>>, Link(2)),
              PartialList(<<Subscription(Undefined, Undefined)>>, NoLink)>>),
     Rejects}

SessionLists ==
    {<<>>} \cup {<<Session("s1", c)>> : c \in FirstClients}
           \cup {<<Session("s1", c), Session("s2", d)>> : c \in FirstClients, d \in SecondClients}

\* what keytar.getPassword, dockerHubLogin() and the Docker Hub client answer in
\* one run of the dockerHubRegistry branch
HubRuns ==
    LET listings == {[user |-> Rejects, repos |-> NotCalled, repository |-> NotCalled],
                     [user |-> Bool(TRUE), repos |-> Rejects, repository |-> NotCalled],
                     [user |-> Bool(TRUE), repos |-> Array(<<>>), repository |-> NotCalled]}
                    \cup {[user |-> Bool(TRUE), repos |-> Array(Prefix(RepoNames, n)), repository |-> r] :
                            n \in 1..MaxItems, r \in {Bool(TRUE), Rejects}}
        none     == [user |-> NotCalled, repos |-> NotCalled, repository |-> NotCalled]
        stores   == IF keytar THEN {password, Rejects} ELSE {NotCalled}
    IN  {[stored |-> st, login |-> lg, hub |-> h] :
            st \in stores, lg \in {NotCalled, Undefined, Str("tok1"), Rejects},
            h \in listings \cup {none}}

\* a run names exactly the calls the branch makes
HubRunMade(run) ==
    LET token   == IF run.stored = NotCalled THEN Undefined ELSE run.stored
        logsIn  == token # Rejects /\ ~Truthy(token)
        listing == token # Rejects /\ (Truthy(token) \/ (run.login # Rejects /\ Truthy(run.login)))
    IN  /\ (run.login # NotCalled) <=> logsIn
        /\ (run.hub.user # NotCalled) <=> listing

TagAnswers == {Rejects} \cup {Array(Prefix(HubTagNames, n)) : n \in 0..MaxItems}

RegistryAnswers == {Rejects} \cup {Array(Prefix(RegistryNames, n)) : n \in 0..MaxItems}

FullTokens == TokenResult(Str("aad-access"), Str("aad-refresh"))

TokenCallbacks ==
    {TokenError, FullTokens, TokenResult(Str(""), Str("aad-refresh")),
     TokenResult(Str("aad-access"), Undefined)}

ExchangeAnswers == {EmptyBody, Body(Json("refresh_token", Str("acr-refresh")))}
TokenAnswers    == {EmptyBody, Body(Json("access_token", Str("acr-access")))}
ListingAnswers(field, names) ==
    {EmptyBody} \cup {Body(Json(field, Array(Prefix(names, n)))) : n \in 0..MaxItems}

\* what acquireToken and the three HTTP calls answer in one run of an Azure branch
AzureRuns(field, names) ==
    {[callback |-> c, http |-> <<NotCalled, NotCalled, NotCalled>>] :
        c \in TokenCallbacks \ {FullTokens}}
    \cup {[callback |-> FullTokens, http |-> <<HttpError, NotCalled, NotCalled>>]}
    \cup {[callback |-> FullTokens, http |-> <<e, HttpError, NotCalled>>] : e \in ExchangeAnswers}
    \cup {[callback |-> FullTokens, http |-> <<e, t, l>>] :
            e \in ExchangeAnswers, t \in TokenAnswers,
            l \in ListingAnswers(field, names) \cup {HttpError}}

CatalogRuns == AzureRuns("repositories", RepoNames)
TagListRuns == AzureRuns("tags", HubTagNames)

\* the effect of a getChildren(element) call on the state
Expanded(element, input, outcome) ==
    /\ fired' = <<>>
    /\ last' = Call("getChildren", Str(element.contextValue), input, outcome.calls, outcome.result)
    /\ password' = outcome.password
    /\ UNCHANGED <<provider, timer, keytar>>

GetImages ==
    \E element \in Elements("imagesLabel"), images \in ImageLists :
        Expanded(element, images, Outcome(<<"getImageDescriptors">>, ImagesBranch(images), password))

GetContainers ==
    \E element \in Elements("containersLabel"), containers \in ContainerLists :
        Expanded(element, containers,
                 Outcome(<<"getContainerDescriptors">>, ContainersBranch(containers), password))

GetRegistries ==
    \E element \in Elements("registriesLabel") :
        \/ Expanded(element, Bool(FALSE),
                    Outcome(<<"waitForLogin">>, RegistriesBranch(Bool(FALSE), <<>>), password))
        \/ \E sessions \in SessionLists :
               Expanded(element, Bool(TRUE),
                        Outcome(<<"waitForLogin">>, RegistriesBranch(Bool(TRUE), sessions), password))

GetDockerHub ==
    \E element \in Elements("dockerHubRegistry"), run \in {r \in HubRuns : HubRunMade(r)} :
        Expanded(element, run, DockerHubBranch(keytar, run.stored, run.login, run.hub))

GetHubImage ==
    \E element \in Elements("dockerHubRegistryImage"), myTags \in TagAnswers :
        Expanded(element, myTags, HubImageBranch(element, myTags))

GetAzureSubscription ==
    \E element \in Elements("azureSubscription"), registries \in RegistryAnswers :
        Expanded(element, registries, AzureSubscriptionBranch(element, registries))

GetAzureRegistry ==
    \E element \in Elements("azureRegistry"), run \in CatalogRuns :
        Expanded(element, run, AzureRegistryBranch(element, run.callback, run.http))

GetAzureRepository ==
    \E element \in Elements("azureRepository"), run \in TagListRuns :
        Expanded(element, run, AzureRepositoryBranch(element, run.callback, run.http))

\* a node no branch of the dispatch matches
GetLeaf ==
    \E element \in {n \in Known : n.contextValue \notin Dispatched} :
        Expanded(element, Undefined, NoBranch)

----------------------------------------------------------------------------
(* The provider *)

GetChildren ==
    \/ GetRootNodes
    \/ GetImages
    \/ GetContainers
    \/ GetRegistries
    \/ GetDockerHub
    \/ GetHubImage
    \/ GetAzureSubscription
    \/ GetAzureRegistry
    \/ GetAzureRepository
    \/ GetLeaf

Next ==
    \/ RefreshImages
    \/ RefreshContainers
    \/ RefreshRegistries
    \/ Refresh
    \/ SetAutoRefresh
    \/ Timeout
    \/ GetChildren

Spec == Init /\ [][Next]_vars

----------------------------------------------------------------------------
(* The timer and the refresh signals alone, with the event loop's guarantee that a *)
(* pending timeout fires                                                          *)

TimerNext ==
    \/ RefreshImages
    \/ RefreshContainers
    \/ RefreshRegistries
    \/ Refresh
    \/ SetAutoRefresh
    \/ Timeout
    \/ GetRootNodes

TimerSpec == Init /\ [][TimerNext]_vars /\ WF_vars(Timeout)

----------------------------------------------------------------------------
(* listAll alone, applied to every page chain within the bounds *)

PageItems == {"x", "y"}

\* the pages of a client: page k links to a later page or to none, so every chain
\* of links is finite
PageClients ==
    UNION {
        {c \in [1..n -> [items : SeqsUpTo(PageItems, MaxPageLen),
                         nextLink : {NoLink} \cup {Link(k) : k \in 2..n}]] :
            \A k \in 1..n : c[k].nextLink.kind = "link" => c[k].nextLink.page > k}
        : n \in 1..MaxPages}

ListAllInit ==
    /\ imagesNode = Undefined
    /\ containersNode = Undefined
    /\ registriesNode = Undefined
    /\ nodeSeq = 0
    /\ debounceTimer = "undefined"
    /\ pendingTimers = {}
    /\ keytar = FALSE
    /\ password = Null
    /\ fired = <<>>
    /\ \E client \in PageClients :
          last = Call("list", Undefined, Client(client), <<>>, Resolved(Undefined))

\* listAll(client, client.list())
ListAllCall ==
    /\ last.op = "list"
    /\ LET run == ListAll(last.input.pages)
       IN  last' = Call("listAll", Undefined, last.input, run.calls, Resolved(Array(run.all)))
    /\ UNCHANGED <<provider, timer, store, fired>>

ListAllSpec == ListAllInit /\ [][ListAllCall]_vars

----------------------------------------------------------------------------
(* Properties *)

IsGetChildren(contextValue) ==
    last.op = "getChildren" /\ last.element = Str(contextValue)

IsRootCall == last.op = "getChildren" /\ last.element = Undefined

ReturnsNodes == last.result.status = "resolved" /\ last.result.value.kind = "array"

ReturnedNodes == IF ReturnsNodes THEN last.result.value.items ELSE <<>>

\* C1: getChildren(node) never throws or rejects to the caller: whatever the node's
\* tag and whatever the collaborators answer (a Docker Hub client call fails, the
\* token acquisition calls back with an error, an HTTP exchange step fails), the call
\* completes with a result.
C1_NeverRejects ==
    last.op = "getChildren" => last.result.status = "resolved"

\* the nodes the claim C2 states for one image descriptor
C2_ExpectedNodes(desc) ==
    IF desc.RepoTags.kind = "array" /\ Len(desc.RepoTags.items) >= 1
      THEN [j \in 1..Len(desc.RepoTags.items) |-> ImageNode(desc.RepoTags.items[j], desc)]
      ELSE <<ImageNode("<none>:<none>", desc)>>

RECURSIVE C2_Expected(_)
C2_Expected(descs) ==
    IF descs = <<>> THEN <<>> ELSE C2_ExpectedNodes(Head(descs)) \o C2_Expected(Tail(descs))

\* C2: expanding the images category produces, for every image descriptor the daemon
\* returns, one node per repo-tag, in order and labelled with the repo-tag, when it has
\* N >= 1 repo-tags, and exactly one "<none>:<none>" node when it has none (the list
\* absent, or present and empty); each node carries the descriptor.
C2_OneNodePerRepoTag ==
    (IsGetChildren("imagesLabel") /\ last.input.kind = "array")
        => /\ ReturnsNodes
           /\ ReturnedNodes = C2_Expected(last.input.items)

\* the pages listAll has to visit: the first page and every page a link leads to
RECURSIVE C3_Path(_, _)
C3_Path(pages, k) ==
    <<k>> \o (IF pages[k].nextLink.kind = "link"
                THEN C3_Path(pages, pages[k].nextLink.page) ELSE <<>>)

RECURSIVE C3_Items(_, _)
C3_Items(pages, path) ==
    IF path = <<>> THEN <<>> ELSE pages[Head(path)].items \o C3_Items(pages, Tail(path))

\* C3: listAll returns the items of every page reachable from the first page, in page
\* order (one page without a link: that page's items; two linked pages: page 1's items
\* then page 2's; an empty page with a link does not stop it), and calls listNext
\* exactly once per continuation link, in order.
C3_ListAllConcatenates ==
    last.op = "listAll" =>
        LET pages == last.input.pages
            path  == C3_Path(pages, 1)
        IN  /\ last.result = Resolved(Array(C3_Items(pages, path)))
            /\ last.calls = [i \in 1..(Len(path) - 1) |-> Link(path[i + 1])]
            /\ (pages[1].nextLink = NoLink => last.result.value.items = pages[1].items)

\* C3 witness: a first page that is empty and carries a link, followed to a page with items
C3_Witness ==
    /\ last.op = "listAll"
    /\ last.input.pages[1].items = <<>>
    /\ last.input.pages[1].nextLink.kind = "link"
    /\ Len(last.calls) >= 1
    /\ last.result.value.items # <<>>

AutoRefreshSet == last.op = "setAutoRefresh" /\ last.input.value > 0

IntervalPositive == last.op = "setAutoRefresh" => last.input.value > 0

TimerRefreshed == last.op = "timeout" /\ fired = <<imagesNode, containersNode>>

\* C4: with a configured interval > 0 the timer, once auto refresh is set, re-fires the
\* images and the containers signals again and again (not once and not never); at most
\* one firing is pending at any time; with an interval <= 0 no firing is scheduled.
C4_PeriodicRefresh ==
    /\ [](Cardinality(pendingTimers) <= 1)
    /\ [][(last'.op = "setAutoRefresh" /\ last'.input.value <= 0) => UNCHANGED timer]_vars
    /\ ([]IntervalPositive) => [](AutoRefreshSet => []<>TimerRefreshed)

IsCategory(node, contextValue) ==
    node # Undefined /\ node.contextValue = contextValue

\* C5: in every reachable state, before the first getChildren() call too, each of
\* refreshImages, refreshContainers, refreshRegistries fires exactly one notification
\* whose payload is its own category node, never the whole tree (an undefined payload);
\* refresh() fires the three in the order images, containers, registries.
C5_RefreshNamesItsCategory ==
    /\ last.op = "refreshImages" =>
          fired = <<imagesNode>> /\ IsCategory(fired[1], "imagesLabel")
    /\ last.op = "refreshContainers" =>
          fired = <<containersNode>> /\ IsCategory(fired[1], "containersLabel")
    /\ last.op = "refreshRegistries" =>
          fired = <<registriesNode>> /\ IsCategory(fired[1], "registriesLabel")
    /\ last.op = "refresh" =>
          /\ fired = <<imagesNode, containersNode, registriesNode>>
          /\ IsCategory(fired[1], "imagesLabel")
          /\ IsCategory(fired[2], "containersLabel")
          /\ IsCategory(fired[3], "registriesLabel")

References == {imagesNode, containersNode, registriesNode}

\* C6: every getChildren() call without a node returns exactly three collapsed nodes,
\* Images, Containers, Registries, tagged imagesLabel, containersLabel, registriesLabel,
\* and replaces all three stored references with these freshly created nodes (none of
\* the previous references is kept); no other operation changes the references.
C6_RootReplacesReferences ==
    [][IF IsRootCall'
         THEN /\ last'.result = Resolved(Nodes(<<imagesNode', containersNode', registriesNode'>>))
              /\ <<imagesNode'.label, containersNode'.label, registriesNode'.label>>
                    = <<"Images", "Containers", "Registries">>
              /\ <<imagesNode'.contextValue, containersNode'.contextValue,
                   registriesNode'.contextValue>>
                    = <<"imagesLabel", "containersLabel", "registriesLabel">>
              /\ \A n \in References' : n.collapsibleState = "Collapsed" /\ n \notin References
         ELSE UNCHANGED <<imagesNode, containersNode, registriesNode>>]_vars

\* C6 witness: a second root expansion, made while the references of the first are held
C6_Witness ==
    /\ IsRootCall
    /\ nodeSeq = 2
    /\ ReturnedNodes = <<imagesNode, containersNode, registriesNode>>

Made(call) == call \in Range(last.calls)

Count(call) == Cardinality({i \in DOMAIN last.calls : last.calls[i] = call})

\* C7: in a dockerHubRegistry expansion the interactive login is invoked if and only if
\* no token came from the credential store (store absent, or store returns no token);
\* a stored token skips the login and writes nothing back; a login without a token
\* returns the empty sequence without calling the registry client or the store; a
\* token obtained by login is written to the store exactly when a store is available.
C7_LoginOnlyWithoutStoredToken ==
    IsGetChildren("dockerHubRegistry") =>
        LET stored   == last.input.stored
            login    == last.input.login
            noToken  == stored = NotCalled \/ (stored # Rejects /\ ~Truthy(stored))
            hasToken == stored # NotCalled /\ stored # Rejects /\ Truthy(stored)
            loggedIn == Made("dockerHubLogin") /\ login # Rejects /\ Truthy(login)
        IN  /\ (stored = NotCalled) <=> ~keytar
            /\ Made("dockerHubLogin") <=> noToken
            /\ hasToken => ~Made("setPassword") /\ password = stored
            /\ (Made("dockerHubLogin") /\ login # Rejects /\ ~Truthy(login)) =>
                  /\ last.result = Resolved(Nodes(<<>>))
                  /\ ~Made("setLoginToken") /\ ~Made("loggedInUser") /\ ~Made("repositories")
                  /\ ~Made("setPassword")
                  /\ (keytar => password = stored)
            /\ loggedIn => /\ Count("setPassword") = (IF keytar THEN 1 ELSE 0)
                           /\ (keytar => password = login)
            /\ Made("setPassword") => loggedIn

\* C7 witness: the store held a token and the repositories were listed without a login
C7_Witness ==
    /\ IsGetChildren("dockerHubRegistry")
    /\ Truthy(last.input.stored) /\ last.input.stored \notin {NotCalled, Rejects}
    /\ Made("repositories") /\ ~Made("dockerHubLogin")
    /\ ReturnedNodes # <<>>

\* C8: in an azureRegistry or azureRepository expansion, when the second HTTP call (the
\* access-token exchange) returns an empty body, the expansion yields zero nodes: no
\* node is built from the third call's response, whatever it contains.
C8_EmptyTokenBodyYieldsNothing ==
    ((IsGetChildren("azureRegistry") \/ IsGetChildren("azureRepository"))
        /\ last.input.http[2] = EmptyBody)
        => (last.result.status = "resolved" => last.result = Resolved(Nodes(<<>>)))

IsSubscriptionItem(v) ==
    /\ v.kind = "subscriptionItem"
    /\ v.session \in {"s1", "s2"}
    /\ v.subscription.kind = "subscription"

\* the payload the fetch path of a node's tag reads
PayloadConsistent(n) ==
    /\ n.contextValue = "image" => n.imageDesc.kind = "imageDesc"
    /\ n.contextValue \in {"runningContainer", "stoppedContainer"} =>
          n.containerDesc.kind = "containerDesc"
    /\ n.contextValue = "dockerHubRegistryImage" =>
          /\ n.repository.kind = "repository"
          /\ {"namespace", "name"} \subseteq DOMAIN n.repository
    /\ n.contextValue \in {"azureSubscription", "azureRegistry"} =>
          IsSubscriptionItem(n.subscription)
    /\ n.contextValue = "azureRepository" =>
          /\ n.repository.kind = "string"
          /\ n.repository.value \in Range(RegistryNames)
          /\ IsSubscriptionItem(n.subscription)

\* C9: every node getChildren returns, after any sequence of expansions, carries the
\* payload its tag's fetch path reads (image: an image descriptor; running/stopped
\* container: a container descriptor; dockerHubRegistryImage: a repository with
\* namespace and name; azureSubscription, azureRegistry: a subscription item with its
\* session; azureRepository: the registry host as repository and a subscription item),
\* and no expansion fails on a payload that was not set.
C9_TagMatchesPayload ==
    /\ \A i \in DOMAIN ReturnedNodes : PayloadConsistent(ReturnedNodes[i])
    /\ last.result # Rejected("payload")

\* C9 witness: an azureRegistry expansion returned an azureRepository node, the end
\* of the longest chain of payloads handed from parent to child
C9_Witness ==
    /\ IsGetChildren("azureRegistry")
    /\ ReturnedNodes # <<>>
    /\ ReturnedNodes[1].contextValue = "azureRepository"

\* C10: getChildren resolves to a sequence, never to an absent value: for a node whose
\* tag has no dispatch entry, and for an azureRegistry or azureRepository node whose
\* acquired access or refresh token is empty, the result is the empty sequence.
C10_AlwaysASequence ==
    (last.op = "getChildren" /\ last.result.status = "resolved")
        => last.result.value.kind = "array"

====
